---- MODULE Spec2Model ----
(***************************************************************************)
(* baseplate: the Thrift client connection pool (baseplate/thrift_pool.py). *)
(*                                                                         *)
(* Several callers share one ThriftConnectionPool.  The pool is a LIFO     *)
(* queue of slots; a slot is None ("permission to connect") or a protocol  *)
(* object whose transport was opened by the pool.  _acquire pops a slot    *)
(* and walks the retry policy, _release pushes a slot, connection() is the *)
(* context manager around the two.                                         *)
(*                                                                         *)
(* The second half is the server side: GeventServer (server/thrift.py)     *)
(* runs one handle() loop per accepted connection inside a gevent Pool and *)
(* every loop calls the one TBaseplateProcessor (integration/thrift.py).   *)
(* Spec is the pool with the server at rest, ServerSpec the server with    *)
(* the pool at rest, ServerLive is ServerSpec with the fairness of stop(). *)
(***************************************************************************)
EXTENDS Integers, Sequences, FiniteSets, TLC

\* ---- bounds of the model -------------------------------------------------
Size       == 1      \* the pool's size argument
MaxRetries == 2      \* largest max_retries a pool is built with
MaxAge     == 1      \* the pool's max_age argument, in clock ticks

NumConns   == 2      \* client connections that reach the server

NumCallers == Size + 1     \* one caller more than there are slots
MaxConns   == Size + 1     \* connections opened over the life of the pool
MaxTime    == MaxAge + 1   \* the clock runs from 0 to MaxTime

Callers == 1 .. NumCallers
ConnIds == 1 .. MaxConns

\* the empty placeholder put into the queue by __init__ and _release
None == 0

VARIABLES
    max_retries,  \* self.retry_policy = RetryPolicy.new(attempts=max_retries)
    pool,         \* self.pool, a LifoQueue: the last element is the top
    connState,    \* per protocol object: "unborn", "open" or "closed" transport
    birth,        \* per protocol object: prot.baseplate_birthdate
    nextId,       \* identity of the next protocol object that opens
    now,          \* time.time()
    pc,           \* per caller: "idle", "loop" (inside _acquire), "using"
    prot,         \* per caller: the local variable prot
    attempts,     \* per caller: tokens taken from the retry policy in _acquire
    connects,     \* per caller: calls of prot.trans.open() in this _acquire
    scoped,       \* per caller: entered through connection() (TRUE) or _acquire
    out           \* what the step just taken showed its caller (see Outcome)

poolVars == <<max_retries, pool, connState, birth, nextId, now, pc, prot,
              attempts, connects, scoped, out>>

Conns == 1 .. NumConns

VARIABLES
    max_concurrency, \* int(config.get("max_concurrency", 0))
    phase,           \* "serving"; "stopping" once stop() was called; "stopped"
    started,         \* GeventServer.started
    is_upgraded,     \* TBaseplateProcessor.is_upgraded
    loop,            \* per connection: "none", "top" (at the while test),
                     \* "inproc" (inside process(), waiting to read), "done"
    hdr,             \* per connection: process() chose to read a header (line 61)
    handshook,       \* per connection: an upgrade probe was handled on it
    itrans,          \* per connection: the read transport, "open" or "closed"
    otrans,          \* per connection: the write transport, "open" or "closed"
    unflushed,       \* per connection: frames written and not yet flushed
    sout             \* what the server step just taken did (see Cycle, Idle)

serverVars == <<max_concurrency, phase, started, is_upgraded, loop, hdr, handshook,
                itrans, otrans, unflushed, sout>>

vars == <<poolVars, serverVars>>

\* ---- exceptions ----------------------------------------------------------
Exc(cls, type, message) == [cls |-> cls, type |-> type, message |-> message]

NoError == Exc("none", "", "")

\* (variant: the message of lines 129-132 copied to line 104)
PoolExhaustedMessageCopied == "giving up after multiple attempts to connect"

\* _acquire, lines 102-105
PoolExhaustedMessage == "timed out waiting for a connection slot"
PoolExhausted == Exc("TTransportException", "NOT_OPEN", PoolExhaustedMessage)

\* _acquire, lines 129-132
ConnectFailed ==
    Exc("TTransportException", "NOT_OPEN", "giving up after multiple attempts to connect")

\* connection(), lines 169-172 and 175-178
TimedOut == Exc("TTransportException", "TIMED_OUT", "timed out interacting with socket")
Unknown  == Exc("TTransportException", "UNKNOWN", "str(exc)")

\* what the body of a with-block can exit by; "none" is the normal return
BodyExits ==
    { NoError,
      Exc("TApplicationException", "body", ""),
      Exc("TProtocolException", "body", ""),
      Exc("TTransportException", "body", ""),
      Exc("socket.timeout", "body", ""),
      Exc("socket.error", "body", ""),
      Exc("ApplicationError", "body", "") }

RawSocketErrors == {"socket.timeout", "socket.error"}

\* ---- helpers -------------------------------------------------------------
\* self.max_age (line 90)
max_age == MaxAge

\* queue.LifoQueue: put appends, get takes the most recently put element
PoolPut(q, s) == Append(q, s)
PoolTop(q)    == q[Len(q)]

\* (variant: the slot is read but left in the queue)
PoolPeek(q) == q

PoolPop(q) == SubSeq(q, 1, Len(q) - 1)

\* RetryPolicy.new(attempts=n) yields exactly n tokens: token k+1 exists
\* after k tokens were taken iff k < n
HasToken(taken) == taken < max_retries

\* (variant: the comparison turned round)
IsFreshReversed(p) == now - birth[p] > max_age

\* (variant: <= for <)
IsFreshInclusive(p) == now - birth[p] <= max_age

\* line 109: time.time() - prot.baseplate_birthdate < self.max_age
IsFresh(p) == now - birth[p] < max_age

\* (variant: the isOpen() test dropped)
ReleaseSlotAlwaysLive(p, open) == p

\* lines 134-138: the slot _release puts back
ReleaseSlot(p, open) == IF open THEN p ELSE None

\* (variant: the socket.error handler does not close)
ClosesOnExitNoSocketError(e) ==
    e.cls \in {"TApplicationException", "TProtocolException", "TTransportException",
               "socket.timeout"}

\* (variant: a bare except that closes on every error)
ClosesOnAnyError(e) == e.cls # "none"

\* lines 157-178: the handlers of connection() that close the transport
ClosesOnExit(e) ==
    e.cls \in {"TApplicationException", "TProtocolException", "TTransportException",
               "socket.timeout", "socket.error"}

\* (variant: the socket handlers re-raise)
ResignalNothing(e) == e

\* lines 157-178: what connection() raises to its caller for a body exit e
Resignal(e) ==
    CASE e.cls = "socket.timeout" -> TimedOut
      [] e.cls = "socket.error"   -> Unknown
      [] OTHER                    -> e

\* (variant: line 112 missing)
CloseStaleSkipped(st, p) == st

\* lines 111-113: a connection found too old is closed
CloseStale(st, p) == [st EXCEPT ![p] = "closed"]

\* (variant: the first failed open() ends the loop)
AfterFailedOpenRaises == "giveup"

\* line 123 (continue): where _acquire goes after a failed open()
AfterFailedOpen == "loop"

Live == {i \in ConnIds : connState[i] = "open"}

\* What a step showed its caller.  op: the call that ended in the step
\* ("none" when no call ended); conn: the connection _acquire returned or
\* that was released; reaped: the connection line 112 closed; opens: calls
\* of open() by the _acquire that ended; exit: the exception the with-body
\* exited by; err: the exception raised to the caller.
Outcome(op, conn, reaped, opens, exit, e) ==
    [op |-> op, conn |-> conn, reaped |-> reaped, opens |-> opens,
     exit |-> exit, err |-> e]

\* a step that ends no call
Quiet == Outcome("none", None, None, 0, NoError, NoError)

\* ---- the server's state ---------------------------------------------------
\* a step in which the server does nothing to report
Idle(ev, k) ==
    [ev |-> ev, conn |-> k, hdr |-> FALSE, req |-> << >>, route |-> "none",
     skipped |-> FALSE, called |-> FALSE, thrown |-> NoError, frames |-> << >>,
     flushes |-> 0, ret |-> FALSE]

\* GeventServer.__init__ and TBaseplateProcessor.__init__ for a configured
\* max_concurrency of mc: nothing accepted, processor not upgraded
ServerStart(mc) ==
    /\ max_concurrency = mc
    /\ phase = "serving"
    /\ started = TRUE
    /\ is_upgraded = FALSE
    /\ loop = [k \in Conns |-> "none"]
    /\ hdr = [k \in Conns |-> FALSE]
    /\ handshook = [k \in Conns |-> FALSE]
    /\ itrans = [k \in Conns |-> "open"]
    /\ otrans = [k \in Conns |-> "open"]
    /\ unflushed = [k \in Conns |-> 0]
    /\ sout = Idle("none", None)

ServerAtRest == ServerStart(0)

\* ---- initial state: __init__, lines 88-96 --------------------------------
PoolInit ==
    /\ max_retries \in 0 .. MaxRetries
    /\ pool = [i \in 1 .. Size |-> None]
    /\ connState = [i \in ConnIds |-> "unborn"]
    /\ birth = [i \in ConnIds |-> 0]
    /\ nextId = 1
    /\ now = 0
    /\ pc = [c \in Callers |-> "idle"]
    /\ prot = [c \in Callers |-> None]
    /\ attempts = [c \in Callers |-> 0]
    /\ connects = [c \in Callers |-> 0]
    /\ scoped = [c \in Callers |-> FALSE]
    /\ out = Quiet

Init == PoolInit /\ ServerAtRest

\* a caller leaves _acquire for "to": the loop's locals die
Leave(c, to) ==
    /\ pc' = [pc EXCEPT ![c] = to]
    /\ attempts' = [attempts EXCEPT ![c] = 0]
    /\ connects' = [connects EXCEPT ![c] = 0]

\* ---- _acquire ------------------------------------------------------------
\* line 100: pool.get() hands the caller the top slot
AcquireGet(c, s) ==
    /\ pc[c] = "idle"
    /\ pool # << >>
    /\ pool' = PoolPop(pool)
    /\ prot' = [prot EXCEPT ![c] = PoolTop(pool)]
    /\ scoped' = [scoped EXCEPT ![c] = s]
    /\ pc' = [pc EXCEPT ![c] = "loop"]
    /\ out' = Quiet
    /\ UNCHANGED <<serverVars, max_retries, connState, birth, nextId, now, attempts, connects>>

\* lines 100-105: the queue stayed empty for the whole timeout
AcquireTimeout(c) ==
    /\ pc[c] = "idle"
    /\ pool = << >>
    /\ out' = Outcome("acquire", None, None, connects[c], NoError, PoolExhausted)
    /\ UNCHANGED <<serverVars, max_retries, pool, connState, birth, nextId, now, pc, prot,
                   attempts, connects, scoped>>

\* lines 107-110: the slot holds a connection that is young enough
ReturnPooled(c) ==
    /\ pc[c] = "loop"
    /\ HasToken(attempts[c])
    /\ prot[c] # None
    /\ IsFresh(prot[c])
    /\ Leave(c, "using")
    /\ out' = Outcome("acquire", prot[c], None, connects[c], NoError, NoError)
    /\ UNCHANGED <<serverVars, max_retries, pool, connState, birth, nextId, now, prot, scoped>>

\* lines 107-127: one turn of the loop that reaches prot.trans.open();
\* ok is whether the endpoint accepts this connect
Attempt(c, ok) ==
    /\ pc[c] = "loop"
    /\ HasToken(attempts[c])
    /\ prot[c] # None => ~IsFresh(prot[c])
    /\ ok => nextId <= MaxConns
    /\ LET closed == IF prot[c] # None THEN CloseStale(connState, prot[c])
                                       ELSE connState
       IN  IF ok
              THEN /\ connState' = [closed EXCEPT ![nextId] = "open"]   \* line 118
                   /\ birth' = [birth EXCEPT ![nextId] = now]           \* line 125
                   /\ prot' = [prot EXCEPT ![c] = nextId]
                   /\ nextId' = nextId + 1
                   /\ Leave(c, "using")                                 \* line 127
                   /\ out' = Outcome("acquire", nextId, prot[c], connects[c] + 1,
                                     NoError, NoError)
              ELSE /\ connState' = closed
                   /\ prot' = [prot EXCEPT ![c] = None]                 \* line 122
                   /\ pc' = [pc EXCEPT ![c] = AfterFailedOpen]          \* line 123
                   /\ attempts' = [attempts EXCEPT ![c] = @ + 1]
                   /\ connects' = [connects EXCEPT ![c] = @ + 1]
                   /\ out' = Outcome("none", None, prot[c], 0, NoError, NoError)
                   /\ UNCHANGED <<birth, nextId>>
    /\ UNCHANGED <<serverVars, max_retries, pool, now, scoped>>

\* lines 129-132: the retry policy is exhausted; the exception leaves _acquire
\* and, unhandled, connection() (line 154 is outside its try block)
GiveUp(c) ==
    /\ \/ pc[c] = "loop" /\ ~HasToken(attempts[c])
       \/ pc[c] = "giveup"
    /\ out' = Outcome("acquire", None, None, connects[c], NoError, ConnectFailed)
    /\ prot' = [prot EXCEPT ![c] = None]
    /\ scoped' = [scoped EXCEPT ![c] = FALSE]
    /\ Leave(c, "idle")
    /\ UNCHANGED <<serverVars, max_retries, pool, connState, birth, nextId, now>>

\* ---- _release and connection() -------------------------------------------
\* a holder that called _acquire itself closes the transport before it
\* releases (prot.trans.close() by the caller)
UserClose(c) ==
    /\ pc[c] = "using"
    /\ ~scoped[c]
    /\ connState[prot[c]] = "open"
    /\ connState' = [connState EXCEPT ![prot[c]] = "closed"]
    /\ out' = Quiet
    /\ UNCHANGED <<serverVars, max_retries, pool, birth, nextId, now, pc, prot,
                   attempts, connects, scoped>>

\* lines 134-138
Release(c) ==
    /\ pc[c] = "using"
    /\ ~scoped[c]
    /\ pool' = PoolPut(pool, ReleaseSlot(prot[c], connState[prot[c]] = "open"))
    /\ prot' = [prot EXCEPT ![c] = None]
    /\ pc' = [pc EXCEPT ![c] = "idle"]
    /\ out' = Outcome("release", prot[c], None, 0, NoError, NoError)
    /\ UNCHANGED <<serverVars, max_retries, connState, birth, nextId, now, attempts, connects,
                   scoped>>

\* lines 155-180: the with-body exits by e (NoError: it returns); the
\* handler that matches e runs, then the finally clause releases
ScopedExit(c, e) ==
    /\ pc[c] = "using"
    /\ scoped[c]
    /\ LET after == IF ClosesOnExit(e)
                       THEN [connState EXCEPT ![prot[c]] = "closed"]
                       ELSE connState
       IN  /\ connState' = after
           /\ pool' = PoolPut(pool, ReleaseSlot(prot[c], after[prot[c]] = "open"))
    /\ out' = Outcome("connection", prot[c], None, 0, e, Resignal(e))
    /\ prot' = [prot EXCEPT ![c] = None]
    /\ scoped' = [scoped EXCEPT ![c] = FALSE]
    /\ pc' = [pc EXCEPT ![c] = "idle"]
    /\ UNCHANGED <<serverVars, max_retries, birth, nextId, now, attempts, connects>>

\* ---- the clock -----------------------------------------------------------
Tick ==
    /\ now < MaxTime
    /\ now' = now + 1
    /\ out' = Quiet
    /\ UNCHANGED <<serverVars, max_retries, pool, connState, birth, nextId, pc, prot,
                   attempts, connects, scoped>>

Next ==
    \/ \E c \in Callers, s \in BOOLEAN : AcquireGet(c, s)
    \/ \E c \in Callers : AcquireTimeout(c)
    \/ \E c \in Callers : ReturnPooled(c)
    \/ \E c \in Callers, ok \in BOOLEAN : Attempt(c, ok)
    \/ \E c \in Callers : GiveUp(c)
    \/ \E c \in Callers : UserClose(c)
    \/ \E c \in Callers : Release(c)
    \/ \E c \in Callers, e \in BodyExits : ScopedExit(c, e)
    \/ Tick

Spec == Init /\ [][Next]_vars

\* ==== TBaseplateProcessor (integration/thrift.py) ==========================
\* line 69: the reserved upgrade-probe name
Probe == "__can__finagle__trace__v3__"

\* the service descriptor handed to the processor: echo is a normal method
\* that declares EchoError, notify is declared oneway
Declared == {"echo", "notify"}
DeclaredOneway == {"notify"}
DeclaredExc(name) == IF name = "echo" THEN {"EchoError"} ELSE {}

\* what a client can send: method names, envelope kinds, sequence ids
Names == {Probe, "echo", "notify", "nope"}
Kinds == {"CALL", "ONEWAY", "REPLY"}
SeqIds == {1, 2}

\* what the application handler can do: return, or raise one of these
Raised(cls) == Exc(cls, "", "boom")
HandlerOutcomes ==
    {NoError, Raised("EchoError"), Raised("ValueError"), Raised("TProtocolException")}

\* isinstance(exc, TException), line 87: exceptions declared in the IDL and
\* the library's own are TException, ValueError is not
IsTException(e) ==
    e.cls \in {"EchoError", "TProtocolException", "TApplicationException"}

\* line 68: assert message_type in (CALL, ONEWAY)
KindAccepted(kind) == kind \in {"CALL", "ONEWAY"}

\* (variant: the service lookup missing, every other name is dispatched)
RouteWithoutNotFound(name) == IF name = Probe THEN "upgrade" ELSE "method"

\* lines 69-80: which handler the method name selects
Route(name) ==
    IF name = Probe THEN "upgrade"
    ELSE IF name \in Declared THEN "method"
    ELSE "notfound"

\* (variant: no handler error is matched against the declared fields)
MatchesDeclaredNever(name, e) == FALSE

\* lines 139-146: the raised error is an instance of a declared exception
MatchesDeclared(name, e) == e.cls \in DeclaredExc(name)

\* lines 104-105
NotFoundError == Exc("TApplicationException", "UNKNOWN_METHOD", "")

\* the result message of a method: success, the declared exception field
\* that is set, and the oneway attribute of the result class
Result(name, success, exc) ==
    [cls |-> "result", success |-> success, exc |-> exc,
     oneway |-> name \in DeclaredOneway]

\* lines 100-102: UpgradeReply(); it is answered like a normal call
UpgradeReply == [cls |-> "UpgradeReply", success |-> "", exc |-> NoError, oneway |-> FALSE]

\* lines 83-84 with 100-150: what handler(name, header, args) does when the
\* application handler does h: [raised, result]
Handle(route, name, h) ==
    CASE route = "upgrade"  -> [raised |-> NoError, result |-> UpgradeReply]
      [] route = "notfound" -> [raised |-> NotFoundError, result |-> << >>]
      [] OTHER ->
            IF h = NoError
               THEN [raised |-> NoError, result |-> Result(name, "value", NoError)]
            ELSE IF MatchesDeclared(name, h)
               THEN [raised |-> NoError, result |-> Result(name, "", h)]
               ELSE [raised |-> h, result |-> << >>]

\* (variant: every error is wrapped, also the protocol's own)
WrapAlways(e) == Exc("TApplicationException", "INTERNAL_ERROR", e.message)

\* lines 87-89: what is serialized for an error that left the handler
Wrap(e) ==
    IF IsTException(e) THEN e
    ELSE Exc("TApplicationException", "INTERNAL_ERROR", e.message)

Frame(kind, name, seq, body) == [kind |-> kind, name |-> name, seq |-> seq, body |-> body]

\* lines 85-98: the frames process() writes for the handler's outcome
Frames(name, seq, hr) ==
    IF hr.raised # NoError
       THEN << Frame("EXCEPTION", name, seq, Wrap(hr.raised)) >>
    ELSE IF ~hr.result.oneway
       THEN << Frame("REPLY", name, seq, hr.result) >>
       ELSE << >>

\* (variant: line 92 missing)
FlushAfterReplyOnly(kind) == kind = "REPLY"

\* lines 92 and 98: oprot.trans.flush() after the frame
FlushAfter(kind) == kind \in {"REPLY", "EXCEPTION"}

\* one message cycle of process() for the request (name, kind, seq) when
\* the application handler does h and the write transport works
Cycle(k, name, kind, seq, h) ==
    LET route  == Route(name)
        hr     == Handle(route, name, h)
        sent   == Frames(name, seq, hr)
    IN  [ev      |-> "serve",
         conn    |-> k,
         hdr     |-> hdr[k],
         req     |-> [name |-> name, kind |-> kind, seq |-> seq],
         route   |-> route,
         skipped |-> route = "notfound",
         called  |-> route = "method",
         thrown  |-> IF route = "method" THEN h ELSE NoError,
         frames  |-> sent,
         flushes |-> Cardinality({i \in 1 .. Len(sent) : FlushAfter(sent[i].kind)}),
         ret     |-> TRUE]

\* ==== GeventServer (server/thrift.py) ======================================
\* (variant: Pool() built without the configured size)
PoolSizeUnset(mc) == None

\* line 53: int(config.get("max_concurrency", 0)) or None
PoolSize(mc) == IF mc = 0 THEN None ELSE mc

\* the loops the gevent Pool holds
Active == {k \in Conns : loop[k] \in {"top", "inproc"}}

\* lines 56-61: spawn=pool, a Pool of that size admits no greenlet when full
PoolFull == PoolSize(max_concurrency) # None
                /\ Cardinality(Active) >= PoolSize(max_concurrency)

\* (variant: while True)
LoopContinuesAlways(s) == TRUE

\* line 43: while self.started
LoopContinues(s) == s

\* (variant: the finally clause closes the read transport only)
ClosedInFinallyReadOnly == {"itrans"}

\* lines 47-49: itrans.close(); otrans.close()
ClosedInFinally == {"itrans", "otrans"}

\* lines 45-49: the loop of connection k is left, the finally clause runs
EndLoop(ks) ==
    /\ loop' = [k \in Conns |-> IF k \in ks THEN "done" ELSE loop[k]]
    /\ itrans' = [k \in Conns |->
                     IF k \in ks /\ "itrans" \in ClosedInFinally THEN "closed" ELSE itrans[k]]
    /\ otrans' = [k \in Conns |->
                     IF k \in ks /\ "otrans" \in ClosedInFinally THEN "closed" ELSE otrans[k]]


\* ---- the server's steps --------------------------------------------------
\* the pool is not touched by the server
PoolAtRest == PoolInit /\ max_retries = MaxRetries

ServerInit ==
    /\ PoolAtRest
    /\ \E mc \in 0 .. NumConns - 1 : ServerStart(mc)

\* lines 33-40: the pool has room, handle() is spawned for a new connection
\* and wraps its socket in the two transports; connections are numbered in
\* the order in which they are accepted
Accept(k) ==
    /\ phase = "serving"
    /\ loop[k] = "none"
    /\ \A j \in Conns : j < k => loop[j] # "none"
    /\ ~PoolFull
    /\ loop' = [loop EXCEPT ![k] = "top"]
    /\ sout' = Idle("accept", k)
    /\ UNCHANGED <<poolVars, max_concurrency, phase, started, is_upgraded, hdr,
                   handshook, itrans, otrans, unflushed>>

\* lines 43-44 and 61-65: the while test passes, process() is called and
\* decides from is_upgraded whether it reads a header first
EnterProcess(k) ==
    /\ loop[k] = "top"
    /\ LoopContinues(started)
    /\ loop' = [loop EXCEPT ![k] = "inproc"]
    /\ hdr' = [hdr EXCEPT ![k] = is_upgraded]
    /\ sout' = Idle("enter", k)
    /\ UNCHANGED <<poolVars, max_concurrency, phase, started, is_upgraded,
                   handshook, itrans, otrans, unflushed>>

\* lines 43 and 47-49: the while test fails, the loop ends
ExitLoop(k) ==
    /\ loop[k] = "top"
    /\ ~LoopContinues(started)
    /\ EndLoop({k})
    /\ sout' = Idle("exit", k)
    /\ UNCHANGED <<poolVars, max_concurrency, phase, started, is_upgraded, hdr,
                   handshook, unflushed>>

\* lines 60-98: a request arrives and its cycle runs to the end
Serve(k, name, kind, seq, h) ==
    /\ loop[k] = "inproc"
    /\ KindAccepted(kind)
    /\ h # NoError => Route(name) = "method"
    /\ LET d == Cycle(k, name, kind, seq, h)
       IN  /\ sout' = d
           /\ unflushed' = [unflushed EXCEPT ![k] = @ + Len(d.frames) - d.flushes]
           /\ is_upgraded' = (is_upgraded \/ d.route = "upgrade")         \* line 101
           /\ handshook' = [handshook EXCEPT ![k] = @ \/ d.route = "upgrade"]
    /\ loop' = [loop EXCEPT ![k] = "top"]
    /\ hdr' = [hdr EXCEPT ![k] = FALSE]          \* process() is left
    /\ UNCHANGED <<poolVars, max_concurrency, phase, started, itrans, otrans>>

\* lines 84-98 and 45-49: the request for name is handled but the write
\* transport fails under its frame; the TTransportException leaves process()
\* and ends the loop
WriteFails(k, name) ==
    /\ loop[k] = "inproc"
    /\ \E h \in HandlerOutcomes :
          /\ h # NoError => Route(name) = "method"
          /\ Frames(name, 1, Handle(Route(name), name, h)) # << >>
    /\ is_upgraded' = (is_upgraded \/ Route(name) = "upgrade")
    /\ handshook' = [handshook EXCEPT ![k] = @ \/ Route(name) = "upgrade"]
    /\ EndLoop({k})
    /\ hdr' = [hdr EXCEPT ![k] = FALSE]
    /\ sout' = [Idle("writefail", k) EXCEPT !.hdr = hdr[k]]
    /\ UNCHANGED <<poolVars, max_concurrency, phase, started, unflushed>>

\* line 68: an envelope of another kind fails the assertion; the error
\* leaves process() and handle(), the finally clause runs
BadKind(k, kind) ==
    /\ loop[k] = "inproc"
    /\ ~KindAccepted(kind)
    /\ EndLoop({k})
    /\ hdr' = [hdr EXCEPT ![k] = FALSE]
    /\ sout' = [Idle("error", k) EXCEPT !.hdr = hdr[k]]
    /\ UNCHANGED <<poolVars, max_concurrency, phase, started, is_upgraded,
                   handshook, unflushed>>

\* lines 45-49: the read raises TTransportException (the client has gone)
ReadFails(k) ==
    /\ loop[k] = "inproc"
    /\ EndLoop({k})
    /\ hdr' = [hdr EXCEPT ![k] = FALSE]
    /\ sout' = [Idle("readfail", k) EXCEPT !.hdr = hdr[k]]
    /\ UNCHANGED <<poolVars, max_concurrency, phase, started, is_upgraded,
                   handshook, unflushed>>

\* lines 28-29: SIGINT or SIGTERM calls stop(): the listener is closed and
\* started turns false; stop() then waits stop_timeout for the pool
Signal ==
    /\ phase = "serving"
    /\ phase' = "stopping"
    /\ started' = FALSE
    /\ sout' = Idle("signal", None)
    /\ UNCHANGED <<poolVars, max_concurrency, is_upgraded, loop, hdr, handshook,
                   itrans, otrans, unflushed>>

\* lines 27-30 and 62: stop_timeout is over, stop() kills what the pool
\* still holds; each killed handle() leaves through its finally clause
KillAll ==
    /\ phase = "stopping"
    /\ phase' = "stopped"
    /\ EndLoop(Active)
    /\ hdr' = [k \in Conns |-> FALSE]
    /\ sout' = Idle("kill", None)
    /\ UNCHANGED <<poolVars, max_concurrency, started, is_upgraded, handshook,
                   unflushed>>

ServerNext ==
    \/ \E k \in Conns : Accept(k)
    \/ \E k \in Conns : EnterProcess(k)
    \/ \E k \in Conns : ExitLoop(k)
    \/ \E k \in Conns, name \in Names, kind \in Kinds, seq \in SeqIds,
          h \in HandlerOutcomes : Serve(k, name, kind, seq, h)
    \/ \E k \in Conns, name \in Names : WriteFails(k, name)
    \/ \E k \in Conns, kind \in Kinds : BadKind(k, kind)
    \/ \E k \in Conns : ReadFails(k)
    \/ Signal
    \/ KillAll

ServerSpec == ServerInit /\ [][ServerNext]_vars

\* stop() is one call: once it has closed the listener it waits at most
\* stop_timeout and then kills the pool
ServerLive == ServerSpec /\ WF_vars(KillAll)

\* ---- properties -------------------------------------------------------
Held == {c \in Callers : pc[c] # "idle"}

InPool(i) == \E k \in 1 .. Len(pool) : pool[k] = i

Age(i) == now - birth[i]

LowLevelErrors ==
    {"TApplicationException", "TProtocolException", "TTransportException",
     "socket.timeout", "socket.error"}

\* the step is one of caller c inside _acquire
LoopStepOf(c) == pc[c] = "loop" /\ (pc'[c] # "loop" \/ attempts'[c] # attempts[c])

\* C1: the connections the pool opened and has not closed, held by a caller
\* or sitting in a slot, never number more than the pool's size.
C1_LiveWithinSize == Cardinality(Live) <= Size

\* C1 witness: the pool is at its cap right after an acquire closed a stale
\* connection and opened its replacement.
C1_Witness ==
    /\ Cardinality(Live) = Size
    /\ out.op = "acquire"
    /\ out.reaped # None
    /\ out.conn # None

\* C2: the slots in the queue plus the slots held by callers always number
\* Size, also after an acquire gave up with ConnectFailed.
C2_SlotsConserved == Len(pool) + Cardinality(Held) = Size

\* C3: an acquire that fails with ConnectFailed made exactly max_retries calls
\* of open(); an acquire that returns a connection it opened made at most
\* max_retries calls and returned on the first that succeeded (a caller still
\* in the loop has only failed opens behind it and holds no connection).
C3_ExactAttempts ==
    /\ (out.op = "acquire" /\ out.err = ConnectFailed) => out.opens = max_retries
    /\ (out.op = "acquire" /\ out.conn # None /\ out.opens > 0) =>
           /\ out.opens <= max_retries
           /\ connState[out.conn] = "open"
           /\ birth[out.conn] = now
    /\ \A c \in Callers :
           pc[c] = "loop" =>
               /\ connects[c] <= max_retries
               /\ connects[c] = attempts[c]
               /\ connects[c] > 0 => prot[c] = None

\* C3 witness: ConnectFailed after every one of at least two attempts failed.
C3_Witness ==
    /\ out.op = "acquire"
    /\ out.err = ConnectFailed
    /\ out.opens = max_retries
    /\ max_retries >= 2

\* C4: the connection an acquire returns is younger than max_age and open; a
\* slot's connection that reached max_age is closed by the acquire that got
\* it, which then holds a newly opened connection or none; the birthdate is
\* written once, at the open, and never again.
C4_Returned ==
    /\ (out.op = "acquire" /\ out.conn # None) =>
           Age(out.conn) < max_age /\ connState[out.conn] = "open"
    /\ out.reaped # None =>
           connState[out.reaped] = "closed" /\ out.conn # out.reaped

C4_Step ==
    /\ \A c \in Callers :
           (LoopStepOf(c) /\ prot[c] # None /\ Age(prot[c]) >= max_age) =>
               /\ connState'[prot[c]] = "closed"
               /\ \/ pc'[c] = "using" /\ connState[prot'[c]] = "unborn"
                  \/ pc'[c] # "using" /\ prot'[c] = None
    /\ \A i \in ConnIds :
           /\ connState[i] # "unborn" => birth'[i] = birth[i]
           /\ (connState[i] = "unborn" /\ connState'[i] = "open") => birth'[i] = now

C4_StaleNeverReturned == []C4_Returned /\ [][C4_Step]_vars

\* C4 witness: an acquire found a connection of age max_age or more in its
\* slot, closed it and returned the replacement it opened.
C4_Witness ==
    /\ out.op = "acquire"
    /\ out.reaped # None
    /\ Age(out.reaped) >= max_age
    /\ out.conn # None
    /\ connState[out.conn] = "open"

\* C5: a release adds exactly one slot: the connection itself when its
\* transport is open, None when it is closed; an acquire that holds an empty
\* slot returns only a connection it has just opened.
C5_Step ==
    \A c \in Callers :
        /\ (pc[c] = "using" /\ pc'[c] = "idle") =>
               /\ connState'[prot[c]] = "open" => pool' = Append(pool, prot[c])
               /\ connState'[prot[c]] # "open" => pool' = Append(pool, None)
        /\ (pc[c] = "loop" /\ prot[c] = None /\ pc'[c] = "using") =>
               /\ connState[prot'[c]] = "unborn"
               /\ connState'[prot'[c]] = "open"
               /\ out'.opens >= 1

C5_ReleaseBySlotState == [][C5_Step]_vars

\* C5 witness: a connection whose transport is closed was released and the
\* top of the queue is an empty slot.
C5_Witness ==
    /\ out.op = "release"
    /\ connState[out.conn] = "closed"
    /\ pool # << >>
    /\ PoolTop(pool) = None

\* C6: after a with-body exits by a protocol, transport, application-protocol
\* or socket error the connection is closed and the slot released is empty;
\* a closed connection is in no slot, is never returned by an acquire, and
\* stays closed.
C6_Discarded ==
    /\ (out.op = "connection" /\ out.exit.cls \in LowLevelErrors) =>
           /\ connState[out.conn] = "closed"
           /\ pool # << >>
           /\ PoolTop(pool) = None
    /\ \A i \in ConnIds : connState[i] = "closed" => ~InPool(i)
    /\ (out.op = "acquire" /\ out.conn # None) => connState[out.conn] = "open"

C6_ClosedForGood ==
    \A i \in ConnIds : connState[i] = "closed" => connState'[i] = "closed"

C6_ErrorExitDiscards == []C6_Discarded /\ [][C6_ClosedForGood]_vars

\* C6 witness: a with-body exited by a generic socket error.
C6_Witness ==
    /\ out.op = "connection"
    /\ out.exit.cls = "socket.error"
    /\ connState[out.conn] = "closed"

\* C7: no call raises a raw socket error: a socket.timeout in the body is
\* raised as TimedOut, a socket.error as Unknown, and _acquire raises only
\* PoolExhausted or ConnectFailed.
C7_NoRawSocketError ==
    /\ out.err.cls \notin RawSocketErrors
    /\ out.exit.cls = "socket.timeout" => out.err = TimedOut
    /\ out.exit.cls = "socket.error" => out.err = Unknown
    /\ (out.op = "acquire" /\ out.err # NoError) =>
           out.err \in {PoolExhausted, ConnectFailed}

\* C7 witness: a body's socket.timeout reached the caller as TimedOut.
C7_Witness ==
    /\ out.op = "connection"
    /\ out.exit.cls = "socket.timeout"
    /\ out.err.type = "TIMED_OUT"

\* C8: every exit of a with-body adds exactly one slot and leaves the caller
\* without the connection; on a normal exit or an application error the
\* connection's transport is untouched, the error raised is the body's own,
\* and the slot put on top of the queue is that same connection.
C8_Step ==
    \A c \in Callers :
        (pc[c] = "using" /\ scoped[c] /\ pc'[c] # "using") =>
            /\ Len(pool') = Len(pool) + 1
            /\ pc'[c] = "idle"
            /\ prot'[c] = None
            /\ out'.exit.cls \notin LowLevelErrors =>
                   /\ connState' = connState
                   /\ connState'[prot[c]] = "open"
                   /\ out'.err = out'.exit
                   /\ PoolTop(pool') = prot[c]

C8_ScopedRelease == [][C8_Step]_vars

\* C8 witness: a body exited by an application error and its connection is
\* on top of the queue, open.
C8_Witness ==
    /\ out.op = "connection"
    /\ out.exit.cls = "ApplicationError"
    /\ out.err.cls = "ApplicationError"
    /\ pool # << >>
    /\ PoolTop(pool) = out.conn
    /\ connState[out.conn] = "open"

\* C9: a connection has at most one holder: no two callers hold the same
\* connection, a connection a caller holds is in no slot, and no connection
\* is in two slots.
C9_OneHolder ==
    /\ \A c, d \in Callers : (c # d /\ prot[c] # None) => prot[c] # prot[d]
    /\ \A c \in Callers : prot[c] # None => ~InPool(prot[c])
    /\ \A j, k \in 1 .. Len(pool) : (j # k /\ pool[j] # None) => pool[j] # pool[k]

\* C9 witness: a caller was handed a connection out of the queue (another
\* caller used it before) while another caller is inside or before _acquire.
C9_Witness ==
    /\ out.op = "acquire"
    /\ out.conn # None
    /\ out.opens = 0
    /\ \E c, d \in Callers : c # d /\ pc[c] = "using" /\ prot[c] = out.conn /\ pc[d] # "using"

\* C10: PoolExhausted is raised only on an empty queue, by a step that makes
\* no call of open() and leaves the queue, the connections and the callers'
\* slots as they were; it differs from ConnectFailed.
C10_Step ==
    out'.err = PoolExhausted =>
        /\ pool = << >>
        /\ out'.opens = 0
        /\ out'.err # ConnectFailed
        /\ UNCHANGED <<pool, connState, birth, nextId, prot, pc>>

C10_ExhaustedIsDistinct == [][C10_Step]_vars

\* C10 witness: PoolExhausted raised while every slot is with a caller.
C10_Witness ==
    /\ out.op = "acquire"
    /\ out.err = PoolExhausted
    /\ out.err.message # ConnectFailed.message
    /\ Cardinality(Held) = Size

\* C19: an acquire whose slot holds an open connection younger than max_age
\* returns that connection in its next step: nothing is closed, no open() is
\* called, no new connection appears; this for every retry bound the pool
\* is built with.
C19_Step ==
    \A c \in Callers :
        (LoopStepOf(c) /\ prot[c] # None /\ connState[prot[c]] = "open"
            /\ Age(prot[c]) < max_age) =>
            /\ pc'[c] = "using"
            /\ prot'[c] = prot[c]
            /\ connState' = connState
            /\ nextId' = nextId
            /\ out'.op = "acquire"
            /\ out'.conn = prot[c]
            /\ out'.opens = 0
            /\ out'.err = NoError

C19_PooledReturnedAsIs == [][C19_Step]_vars

\* C19 witness: a pool built with a retry bound of one handed out a
\* connection from its queue, still open, without a call of open().
C19_Witness ==
    /\ max_retries = 1
    /\ out.op = "acquire"
    /\ out.conn # None
    /\ out.opens = 0
    /\ out.reaped = None
    /\ connState[out.conn] = "open"
    /\ Age(out.conn) < max_age

\* with a retry bound of 0 no open() is ever called, so no slot ever holds
\* a connection
ZeroRetriesNeverConnects ==
    max_retries = 0 => /\ nextId = 1
                       /\ \A k \in 1 .. Len(pool) : pool[k] = None
                       /\ \A c \in Callers : prot[c] = None

\* ---- properties of the processor and the server ---------------------------
\* the last step was a whole message cycle of process()
Served == sout.ev = "serve"

\* the loop of the connection served last asks for its next message
BackAtTop == loop[sout.conn] = "top" /\ itrans[sout.conn] = "open" /\ otrans[sout.conn] = "open"

\* C11: a message whose envelope type is ONEWAY is answered with no frame at
\* all, whatever its handler does.
C11_OnewayNoFrame ==
    Served /\ sout.req.kind = "ONEWAY" => sout.frames = << >>

\* C12: when the handler of a CALL raises an exception its method declares,
\* the answer is one REPLY frame whose result carries that exception (and no
\* success value), and the connection goes on to its next message.
C12_DeclaredExceptionReplies ==
    (/\ Served
     /\ sout.req.kind = "CALL"
     /\ sout.called
     /\ sout.thrown # NoError
     /\ sout.thrown.cls \in DeclaredExc(sout.req.name))
    => /\ Len(sout.frames) = 1
       /\ sout.frames[1].kind = "REPLY"
       /\ sout.frames[1].name = sout.req.name
       /\ sout.frames[1].seq = sout.req.seq
       /\ sout.frames[1].body.exc = sout.thrown
       /\ sout.frames[1].body.success = ""
       /\ sout.flushes = 1
       /\ BackAtTop

\* C12 witness: echo was called, raised its declared EchoError, and a REPLY
\* went out.
C12_Witness ==
    /\ Served
    /\ sout.req = [name |-> "echo", kind |-> "CALL", seq |-> 2]
    /\ sout.thrown = Raised("EchoError")
    /\ Len(sout.frames) = 1
    /\ sout.frames[1].kind = "REPLY"
    /\ loop[sout.conn] = "top"

UnmatchedError ==
    /\ Served
    /\ sout.called
    /\ sout.thrown # NoError
    /\ sout.thrown.cls \notin DeclaredExc(sout.req.name)

\* C14: when the handler of a CALL raises an error that matches no declared
\* exception, exactly one EXCEPTION frame is written with the request's name
\* and sequence id - the error itself if it is a TException, else an
\* INTERNAL_ERROR application exception with its text - the frame is flushed
\* and the loop goes on to the next message.
C14_UnmatchedErrorFramed ==
    (UnmatchedError /\ sout.req.kind = "CALL")
    => /\ Len(sout.frames) = 1
       /\ sout.frames[1].kind = "EXCEPTION"
       /\ sout.frames[1].name = sout.req.name
       /\ sout.frames[1].seq = sout.req.seq
       /\ sout.frames[1].body =
             IF IsTException(sout.thrown) THEN sout.thrown
             ELSE Exc("TApplicationException", "INTERNAL_ERROR", sout.thrown.message)
       /\ sout.flushes = 1
       /\ BackAtTop

\* C14 witness: both cases were served, here the protocol's own error sent
\* as it is.
C14_Witness ==
    /\ UnmatchedError
    /\ sout.req.kind = "CALL"
    /\ sout.thrown = Raised("TProtocolException")
    /\ sout.frames[1].body = sout.thrown
    /\ loop[sout.conn] = "top"

\* the other case of C14: a ValueError went out wrapped
C14_WrappedReached ==
    /\ UnmatchedError
    /\ sout.req.kind = "CALL"
    /\ sout.thrown = Raised("ValueError")
    /\ sout.frames[1].body.type = "INTERNAL_ERROR"

\* C15: process() reads a request header on a connection if and only if
\* that same connection has completed the upgrade handshake before; a
\* handshake on one connection changes nothing for another.
C15_HeaderIffOwnHandshake ==
    \A k \in Conns : loop[k] = "inproc" => (hdr[k] <=> handshook[k])

\* C16: with max_concurrency M > 0 no more than M loops run at a time, and
\* with M loops running a new one starts only after one has ended; with
\* max_concurrency 0 (or unset) a waiting connection is always admitted.
C16_Bounded ==
    /\ max_concurrency # 0 => Cardinality(Active) <= max_concurrency
    /\ (max_concurrency # 0 /\ Cardinality(Active) = max_concurrency)
          => ~ENABLED (\E k \in Conns : Accept(k))
    /\ (max_concurrency = 0 /\ phase = "serving" /\ \E k \in Conns : loop[k] = "none")
          => ENABLED (\E k \in Conns : Accept(k))

\* C16 witness: M loops run and a further connection is waiting.
C16_Witness ==
    /\ max_concurrency # 0
    /\ phase = "serving"
    /\ Cardinality(Active) = max_concurrency
    /\ \E k \in Conns : loop[k] = "none"

\* the unbounded case of C16: without a bound every connection has its loop
C16_UnboundedReached ==
    max_concurrency = 0 /\ Active = Conns

\* an ended loop has both its transports closed
C17_ClosedWhenEnded ==
    \A k \in Conns : loop[k] = "done" => itrans[k] = "closed" /\ otrans[k] = "closed"

\* a step that leaves the loop by an error or by the while test ends it, and
\* an ended loop processes nothing more
C17_Step ==
    /\ sout'.ev \in {"readfail", "writefail", "error", "exit"} => loop'[sout'.conn] = "done"
    /\ sout'.ev = "kill" => \A k \in Conns : loop'[k] \in {"none", "done"}
    /\ \A k \in Conns : loop[k] = "done" => loop'[k] = "done"

\* C17: however a loop ends - the server stopping, a transport error of the
\* processor, any other error - both transports of its connection are
\* closed, and after a transport failure no further message is processed on
\* that connection.
C17_EndClosesBoth == []C17_ClosedWhenEnded /\ [][C17_Step]_vars

\* C17 witness: a read failed, the loop is over and both transports closed.
C17_Witness ==
    /\ sout.ev = "readfail"
    /\ loop[sout.conn] = "done"
    /\ itrans[sout.conn] = "closed"
    /\ otrans[sout.conn] = "closed"

\* once stop() has run no handle() is spawned and no loop calls process()
\* again
C18_Step ==
    phase # "serving" =>
        \A k \in Conns : /\ loop[k] = "none" => loop'[k] = "none"
                         /\ loop[k] = "top" => loop'[k] # "inproc"

C18_AllEnded == \A k \in Conns : loop[k] \in {"none", "done"}

\* C18: after SIGINT or SIGTERM no new connection loop starts, a running
\* loop takes no new message once its current process() call has returned,
\* and eventually every loop has ended.
C18_GracefulStop == [][C18_Step]_vars /\ ((phase = "stopping") ~> C18_AllEnded)

\* C18 witness: after the signal a running loop left by its while test,
\* while another connection was never given a loop.
C18_Witness ==
    /\ phase # "serving"
    /\ sout.ev = "exit"
    /\ loop[sout.conn] = "done"
    /\ \E k \in Conns : loop[k] = "none"

\* the forced end of C18: stop() killed a loop that was inside process()
C18_KilledReached ==
    /\ phase = "stopped"
    /\ sout.ev = "kill"
    /\ C18_AllEnded
    /\ \E k \in Conns : loop[k] = "done"

\* C20: a connection's messages are handled one after another: whenever its
\* loop is about to read, every frame written before has been flushed, and
\* the frame of a cycle answers that cycle's request.
C20_FlushedBeforeNextRead ==
    /\ \A k \in Conns : loop[k] \in {"top", "inproc"} => unflushed[k] = 0
    /\ Served => /\ Len(sout.frames) <= 1
                 /\ sout.flushes = Len(sout.frames)
                 /\ \A i \in 1 .. Len(sout.frames) :
                       /\ sout.frames[i].name = sout.req.name
                       /\ sout.frames[i].seq = sout.req.seq

\* C20 witness: a CALL was answered with its REPLY, flushed, and the loop is
\* ready for the next message.
C20_Witness ==
    /\ Served
    /\ sout.req = [name |-> "echo", kind |-> "CALL", seq |-> 1]
    /\ sout.thrown = NoError
    /\ Len(sout.frames) = 1
    /\ sout.frames[1].kind = "REPLY"
    /\ sout.frames[1].body.success = "value"
    /\ sout.flushes = 1
    /\ unflushed[sout.conn] = 0
    /\ loop[sout.conn] = "top"

TypeOK ==
    /\ max_retries \in 0 .. MaxRetries
    /\ pool \in Seq(ConnIds \cup {None})
    /\ nextId \in 1 .. MaxConns + 1
    /\ now \in 0 .. MaxTime
    /\ pc \in [Callers -> {"idle", "loop", "using", "giveup"}]
    /\ prot \in [Callers -> ConnIds \cup {None}]
====
